---------------------------- MODULE Spec2Model ----------------------------
(***************************************************************************)
(* Credit accounting core of photoforge-ai: the CreditService ledger       *)
(* (lib/services/credit-service.ts), the tier configuration                *)
(* (lib/config/pricing.ts), the job submission route (POST) that          *)
(* reserves credits, creates the job, dispatches it and compensates, and   *)
(* the monthly reset route (GET /api/cron/reset-credits).                  *)
(*                                                                         *)
(* Every `await` on the shared store is an interleaving point: a service   *)
(* method is a call frame that advances one prisma call at a time.         *)
(***************************************************************************)
EXTENDS Integers, Sequences, FiniteSets, Bags, TLC

\* Number of ledger operations a webhook/cron caller performs in one run.
MaxOps == 3

\* Job ids (crypto.randomUUID(), one per submission request) and the
\* callers of the ledger that are not submission requests.
Reqs == {"j1", "j2"}
Workers == {"w1"}
Procs == Reqs \cup Workers

\* Runs of the reset cron route.
Crons == {"c1", "c2"}
Callers == Procs \cup Crons

\* The account every request of the model is authenticated as.
Accounts == {"u1"}
UnknownUser == "nobody"

TierNames == {"free", "starter", "professional", "enterprise"}

\* PRICING_TIERS: tier name -> monthlyCredits, rolloverCap.
PRICING_TIERS ==
    [t \in TierNames |->
        CASE t = "free"         -> [monthlyCredits |-> 5,    rolloverCap |-> 0]
          [] t = "starter"      -> [monthlyCredits |-> 100,  rolloverCap |-> 50]
          [] t = "professional" -> [monthlyCredits |-> 400,  rolloverCap |-> 200]
          [] t = "enterprise"   -> [monthlyCredits |-> 2000, rolloverCap |-> 500]]

getTierConfig(tierName) == PRICING_TIERS[tierName]

\* The tiers the subscription webhook of the model moves an account to.
SubscribedTiers == {"free", "starter"}

\* ALA_CARTE_OPTIONS[*].credits: the credit packs a payment can buy.
AlaCarteCredits == {50, 100}

\* The Stripe payment intents whose confirmation the payment webhook
\* delivers: each bought one credit pack, and a delivery can be repeated.
Payments == {[id |-> "pi_1", credits |-> 50], [id |-> "pi_2", credits |-> 100]}

\* images.length of the submissions of the model; 100 is the batch cap.
MaxImages == 100
ImageCounts == {0, 30, 50, 101}

\* calculateBatchCredits(images.length) on the batch sizes of the model:
\* 30 images are priced at 25 credits, 50 images at 40.
calculateBatchCredits(n) == IF n = 30 THEN 25 ELSE IF n = 50 THEN 40 ELSE n

Max(a, b) == IF a >= b THEN a ELSE b
Min(a, b) == IF a <= b THEN a ELSE b

\* Mutant: the rollover cap is not applied.
calculateRollover_uncapped(currentBalance, monthlyCredits, rolloverCap) ==
    monthlyCredits + Max(0, currentBalance)

calculateRollover(currentBalance, monthlyCredits, rolloverCap) ==
    LET unusedCredits == Max(0, currentBalance)
        rolloverAmount == Min(unusedCredits, rolloverCap)
    IN  monthlyCredits + rolloverAmount

\* hasEnoughCredits(balance, required): the optimistic pre-check.
hasEnoughCredits(balance, required) == balance >= required

-----------------------------------------------------------------------------
(* Dates: a Date is its day number in a year that is not a leap year,     *)
(* 1 January being day 1. Months are numbered as Date numbers them:        *)
(* January is 0, and -1 is December of the year before.                    *)

\* Days of the year before the first day of month m.
daysBefore(m) ==
    CASE m = -1 -> -31
      [] m = 0  -> 0
      [] m = 1  -> 31
      [] m = 2  -> 59
      [] m = 3  -> 90
      [] m = 4  -> 120

daysInMonth(m) == daysBefore(m + 1) - daysBefore(m)

\* new Date(year, m, d): a day past the end of the month runs on into the
\* next month.
Day(m, d) == daysBefore(m) + d

\* Date.prototype.getMonth, getDate, setMonth
getMonth(date) ==
    CHOOSE m \in -1..3 : daysBefore(m) < date /\ date <= daysBefore(m + 1)

getDate(date) == date - daysBefore(getMonth(date))

setMonth(date, m) == Day(m, getDate(date))

\* getUsersNeedingReset: oneMonthAgo.setMonth(oneMonthAgo.getMonth() - 1)
oneMonthAgo(date) == setMonth(date, getMonth(date) - 1)

\* The day every account of the ledger specifications signed up, which is
\* also the day their calls are made.
SignupDate == Day(1, 1)

VARIABLES
    users,               \* prisma.user: account id -> row
    creditTransactions,  \* prisma.creditTransaction: the rows, as a bag
    jobs,                \* prisma.job: job id -> row
    queue,               \* jobs QueueService.addJob accepted
    post,                \* locals of each POST handler
    frame,               \* the CreditService call each process is in
    opsDone,             \* ledger calls each worker has made
    users0,              \* the account rows of the initial state
    now,                 \* the date new Date() returns
    cron                 \* locals of each run of the reset cron route

vars == <<users, creditTransactions, jobs, queue, post, frame, opsDone, users0,
          now, cron>>

-----------------------------------------------------------------------------
(* Rows and locals *)

NoUser == [tier |-> "none", creditsBalance |-> 0, monthlyCredits |-> 0,
           rolloverCap |-> 0, creditsUsedThisMonth |-> 0, lastCreditReset |-> 0]

NoJob == [status |-> "none", userId |-> "none", creditsReserved |-> 0,
          creditsConsumed |-> 0, errorMessage |-> "none"]

NoResult == [success |-> FALSE, newBalance |-> 0, insufficientCredits |-> FALSE,
             previousBalance |-> 0, rolledOverAmount |-> 0, monthlyCredits |-> 0]

NoFrame == [fn |-> "none", pc |-> "none", userId |-> "none", amount |-> 0,
            jobId |-> "none", newTier |-> "none",
            stripePaymentIntentId |-> "none", user |-> NoUser,
            result |-> NoResult]

NoResponse == [status |-> 0, error |-> "none", required |-> 0, available |-> 0,
               jobStatus |-> "none", creditsReserved |-> 0]

\* `before` is history: the account row when deductCredits was called.
NoPost == [pc |-> "idle", userId |-> "none", imageCount |-> 0,
           totalCredits |-> 0, deductResult |-> NoResult,
           response |-> NoResponse, before |-> NoUser]

\* Locals of GET /api/cron/reset-credits: the ids getUsersNeedingReset
\* returned, the index of the loop, `results`, and the status it answered.
NoResults == [total |-> 0, successful |-> 0, failed |-> 0, errors |-> <<>>]

NoCron == [pc |-> "idle", userIds |-> <<>>, i |-> 0, results |-> NoResults,
           status |-> 0]

Response(status, error) == [NoResponse EXCEPT !.status = status, !.error = error]

Call(fn, pc, userId, amount, jobId, newTier) ==
    [fn |-> fn, pc |-> pc, userId |-> userId, amount |-> amount,
     jobId |-> jobId, newTier |-> newTier, stripePaymentIntentId |-> "none",
     user |-> NoUser, result |-> NoResult]

\* `payment` is the payment intent the description of a purchase row names.
Txn(userId, amount, type, jobId) ==
    [userId |-> userId, amount |-> amount, type |-> type, jobId |-> jobId,
     payment |-> "none"]

\* prisma.creditTransaction.create({ data }): one more row in the table.
Insert(table, row) == table (+) SetToBag({row})

\* prisma.user.findUnique({ where: { id } })
findUnique(userId) == IF userId \in DOMAIN users THEN users[userId] ELSE NoUser


-----------------------------------------------------------------------------
(* CreditService: what each method computes *)

\* Mutant: the balance is compared with zero instead of the amount.
insufficientCredits_zero(user, amount) == user.creditsBalance < 0

\* deductCredits: `user.creditsBalance < amount`
insufficientCredits(user, amount) == user.creditsBalance < amount

deductNewBalance(user, amount) == user.creditsBalance - amount

\* Mutant: the reserve leaves creditsUsedThisMonth as it was.
deductNewUsedThisMonth_kept(user, amount) == user.creditsUsedThisMonth

deductNewUsedThisMonth(user, amount) == user.creditsUsedThisMonth + amount

\* Mutant: the failure carries no balance.
deductFailure_blank(user) ==
    [NoResult EXCEPT !.success = FALSE, !.insufficientCredits = TRUE]

deductFailure(user) ==
    [NoResult EXCEPT !.success = FALSE,
                     !.newBalance = user.creditsBalance,
                     !.insufficientCredits = TRUE]

deductSuccess(user, amount) ==
    [NoResult EXCEPT !.success = TRUE,
                     !.newBalance = deductNewBalance(user, amount),
                     !.insufficientCredits = FALSE]

usageTransaction(userId, amount, jobId) == Txn(userId, -amount, "usage", jobId)

refundNewBalance(user, amount) == user.creditsBalance + amount

\* Mutant: the refund leaves creditsUsedThisMonth as it was.
refundNewUsedThisMonth_kept(user, amount) == Max(0, user.creditsUsedThisMonth)

\* Mutant: the decrement is not floored at zero.
refundNewUsedThisMonth_unclamped(user, amount) ==
    user.creditsUsedThisMonth - amount

refundNewUsedThisMonth(user, amount) == Max(0, user.creditsUsedThisMonth - amount)

\* Mutant: the refund row is not tagged with the job.
refundTransaction_untagged(userId, amount, jobId) ==
    Txn(userId, amount, "refund", "none")

refundTransaction(userId, amount, jobId) == Txn(userId, amount, "refund", jobId)

purchaseNewBalance(user, credits) == user.creditsBalance + credits

purchaseTransaction(userId, credits, stripePaymentIntentId) ==
    [Txn(userId, credits, "purchase", "none") EXCEPT
        !.payment = stripePaymentIntentId]

\* Mutant: the tier is set and the allocation snapshot is left as it was.
tierChange_tierOnly(user, newTier) == [user EXCEPT !.tier = newTier]

\* updateUserTier: the data of its prisma.user.update.
tierChange(user, newTier) ==
    [user EXCEPT !.tier = newTier,
                 !.monthlyCredits = getTierConfig(newTier).monthlyCredits,
                 !.rolloverCap = getTierConfig(newTier).rolloverCap]

tierChangeTransaction(userId) == Txn(userId, 0, "tier_change", "none")

resetRolledOverAmount(user) ==
    Min(Max(0, user.creditsBalance), getTierConfig(user.tier).rolloverCap)

resetNewBalance(user) ==
    calculateRollover(user.creditsBalance,
                      getTierConfig(user.tier).monthlyCredits,
                      getTierConfig(user.tier).rolloverCap)

resetTransaction(userId, user) ==
    Txn(userId, getTierConfig(user.tier).monthlyCredits, "monthly_reset", "none")

resetResult(user) ==
    [NoResult EXCEPT !.success = TRUE,
                     !.previousBalance = user.creditsBalance,
                     !.newBalance = resetNewBalance(user),
                     !.rolledOverAmount = resetRolledOverAmount(user),
                     !.monthlyCredits = getTierConfig(user.tier).monthlyCredits]

-----------------------------------------------------------------------------
(* CreditService: one action per method, one disjunct per prisma call *)

\* The method's locals die with the call; its arguments and what it returned
\* stay with the caller.
Returned(f, result) == [f EXCEPT !.pc = "ret", !.user = NoUser, !.result = result]
Threw(f) == [f EXCEPT !.pc = "threw", !.user = NoUser]

deductCredits(p) ==
    LET f == frame[p] IN
    /\ f.fn = "deductCredits"
    /\ \/ /\ f.pc = "read"
          /\ LET row == findUnique(f.userId)
                 user == [NoUser EXCEPT
                            !.creditsBalance = row.creditsBalance,
                            !.creditsUsedThisMonth = row.creditsUsedThisMonth]
             IN  frame' = [frame EXCEPT ![p] =
                    IF row = NoUser THEN Threw(f)
                    ELSE IF insufficientCredits(user, f.amount)
                         THEN Returned(f, deductFailure(user))
                         ELSE [f EXCEPT !.pc = "update", !.user = user]]
          /\ UNCHANGED <<users, creditTransactions>>
       \/ /\ f.pc = "update"
          /\ users' = [users EXCEPT ![f.userId] =
                [@ EXCEPT !.creditsBalance = deductNewBalance(f.user, f.amount),
                          !.creditsUsedThisMonth =
                              deductNewUsedThisMonth(f.user, f.amount)]]
          /\ frame' = [frame EXCEPT ![p].pc = "create"]
          /\ UNCHANGED creditTransactions
       \/ /\ f.pc = "create"
          /\ creditTransactions' =
                Insert(creditTransactions, usageTransaction(f.userId, f.amount, f.jobId))
          /\ frame' = [frame EXCEPT ![p] =
                            Returned(f, deductSuccess(f.user, f.amount))]
          /\ UNCHANGED users
    /\ UNCHANGED <<jobs, queue, post, opsDone, users0, now, cron>>

refundCredits(p) ==
    LET f == frame[p] IN
    /\ f.fn = "refundCredits"
    /\ \/ /\ f.pc = "read"
          /\ LET row == findUnique(f.userId)
                 user == [NoUser EXCEPT
                            !.creditsBalance = row.creditsBalance,
                            !.creditsUsedThisMonth = row.creditsUsedThisMonth]
             IN  frame' = [frame EXCEPT ![p] =
                    IF row = NoUser THEN Threw(f)
                    ELSE [f EXCEPT !.pc = "update", !.user = user]]
          /\ UNCHANGED <<users, creditTransactions>>
       \/ /\ f.pc = "update"
          /\ users' = [users EXCEPT ![f.userId] =
                [@ EXCEPT !.creditsBalance = refundNewBalance(f.user, f.amount),
                          !.creditsUsedThisMonth =
                              refundNewUsedThisMonth(f.user, f.amount)]]
          /\ frame' = [frame EXCEPT ![p].pc = "create"]
          /\ UNCHANGED creditTransactions
       \/ /\ f.pc = "create"
          /\ creditTransactions' =
                Insert(creditTransactions, refundTransaction(f.userId, f.amount, f.jobId))
          /\ frame' = [frame EXCEPT ![p] = Returned(f, NoResult)]
          /\ UNCHANGED users
    /\ UNCHANGED <<jobs, queue, post, opsDone, users0, now, cron>>

addAlaCarteCredits(p) ==
    LET f == frame[p] IN
    /\ f.fn = "addAlaCarteCredits"
    /\ \/ /\ f.pc = "read"
          /\ LET row == findUnique(f.userId)
                 user == [NoUser EXCEPT !.creditsBalance = row.creditsBalance]
             IN  frame' = [frame EXCEPT ![p] =
                    IF row = NoUser THEN Threw(f)
                    ELSE [f EXCEPT !.pc = "update", !.user = user]]
          /\ UNCHANGED <<users, creditTransactions>>
       \/ /\ f.pc = "update"
          /\ users' = [users EXCEPT ![f.userId].creditsBalance =
                            purchaseNewBalance(f.user, f.amount)]
          /\ frame' = [frame EXCEPT ![p].pc = "create"]
          /\ UNCHANGED creditTransactions
       \/ /\ f.pc = "create"
          /\ creditTransactions' =
                Insert(creditTransactions,
                       purchaseTransaction(f.userId, f.amount,
                                           f.stripePaymentIntentId))
          /\ frame' = [frame EXCEPT ![p] = Returned(f, NoResult)]
          /\ UNCHANGED users
    /\ UNCHANGED <<jobs, queue, post, opsDone, users0, now, cron>>

\* prisma.user.update on a row that does not exist rejects.
updateUserTier(p) ==
    LET f == frame[p] IN
    /\ f.fn = "updateUserTier"
    /\ \/ /\ f.pc = "update"
          /\ f.userId \in DOMAIN users
          /\ users' = [users EXCEPT ![f.userId] = tierChange(@, f.newTier)]
          /\ frame' = [frame EXCEPT ![p].pc = "create"]
          /\ UNCHANGED creditTransactions
       \/ /\ f.pc = "update"
          /\ f.userId \notin DOMAIN users
          /\ frame' = [frame EXCEPT ![p] = Threw(f)]
          /\ UNCHANGED <<users, creditTransactions>>
       \/ /\ f.pc = "create"
          /\ creditTransactions' =
                Insert(creditTransactions, tierChangeTransaction(f.userId))
          /\ frame' = [frame EXCEPT ![p] = Returned(f, NoResult)]
          /\ UNCHANGED users
    /\ UNCHANGED <<jobs, queue, post, opsDone, users0, now, cron>>

resetMonthlyCredits(p) ==
    LET f == frame[p] IN
    /\ f.fn = "resetMonthlyCredits"
    /\ \/ /\ f.pc = "read"
          /\ LET row == findUnique(f.userId)
                 user == [row EXCEPT !.creditsUsedThisMonth = 0]
             IN  frame' = [frame EXCEPT ![p] =
                    IF row = NoUser THEN Threw(f)
                    ELSE [f EXCEPT !.pc = "update", !.user = user]]
          /\ UNCHANGED <<users, creditTransactions>>
       \/ /\ f.pc = "update"
          /\ users' = [users EXCEPT ![f.userId] =
                [@ EXCEPT !.creditsBalance = resetNewBalance(f.user),
                          !.creditsUsedThisMonth = 0,
                          !.lastCreditReset = now,
                          !.monthlyCredits = getTierConfig(f.user.tier).monthlyCredits,
                          !.rolloverCap = getTierConfig(f.user.tier).rolloverCap]]
          /\ frame' = [frame EXCEPT ![p].pc = "create"]
          /\ UNCHANGED creditTransactions
       \/ /\ f.pc = "create"
          /\ creditTransactions' =
                Insert(creditTransactions, resetTransaction(f.userId, f.user))
          /\ frame' = [frame EXCEPT ![p] = Returned(f, resetResult(f.user))]
          /\ UNCHANGED users
    /\ UNCHANGED <<jobs, queue, post, opsDone, users0, now, cron>>


-----------------------------------------------------------------------------
(* POST: the job submission route *)

Sessions == {"none", UnknownUser} \cup Accounts

\* Requests are numbered in their order of arrival.
Earlier(q, r) == q = "j1" /\ r = "j2"

\* The handler returned: only its response is left.
Done(r, response) == [NoPost EXCEPT !.pc = "done", !.response = response]

insufficientResponse(required, available) ==
    [Response(402, "Insufficient credits") EXCEPT
        !.required = required, !.available = available]

createdResponse(job) ==
    [Response(201, "none") EXCEPT
        !.jobStatus = job.status, !.creditsReserved = job.creditsReserved]

pendingJob(userId, totalCredits) ==
    [NoJob EXCEPT !.status = "pending", !.userId = userId,
                  !.creditsReserved = totalCredits, !.creditsConsumed = 0]

failedJob(job) ==
    [job EXCEPT !.status = "failed",
                !.errorMessage = "Failed to queue job for processing"]

\* Mutant: the batch cap is not checked.
validationError_uncapped(nImages, prompt) ==
    IF nImages = 0 THEN "No images provided"
    ELSE IF prompt = "" THEN "Background prompt is required"
    ELSE "none"

\* Validate input: the error the route answers 400 with, if any.
validationError(nImages, prompt) ==
    IF nImages = 0 THEN "No images provided"
    ELSE IF prompt = "" THEN "Background prompt is required"
    ELSE IF nImages > MaxImages THEN "Maximum 100 images per job"
    ELSE "none"

\* auth, formData, validation, the account lookup and the optimistic check:
\* one read of the store, then local computation up to the first upload.
PostBegin(r) ==
    /\ post[r].pc = "idle"
    /\ \A q \in Reqs : Earlier(q, r) => post[q].pc # "idle"
    /\ \E session \in Sessions, nImages \in ImageCounts, prompt \in {"", "studio"} :
        LET user == findUnique(session)
            totalCredits == calculateBatchCredits(nImages)
        IN  post' = [post EXCEPT ![r] =
              IF session = "none" THEN Done(r, Response(401, "Unauthorized"))
              ELSE IF validationError(nImages, prompt) # "none"
                   THEN Done(r, Response(400, validationError(nImages, prompt)))
              ELSE IF user = NoUser THEN Done(r, Response(404, "User not found"))
              ELSE IF ~hasEnoughCredits(user.creditsBalance, totalCredits)
                   THEN Done(r, insufficientResponse(totalCredits,
                                                     user.creditsBalance))
              ELSE [post[r] EXCEPT !.pc = "upload", !.userId = session,
                                   !.imageCount = nImages,
                                   !.totalCredits = totalCredits]]
    /\ UNCHANGED <<users, creditTransactions, jobs, queue, frame, opsDone, users0, now, cron>>

\* Every upload succeeded: creditService.deductCredits is called.
PostUpload(r) ==
    /\ post[r].pc = "upload"
    /\ post' = [post EXCEPT ![r].pc = "deducting",
                            ![r].before = findUnique(post[r].userId)]
    /\ frame' = [frame EXCEPT ![r] =
            Call("deductCredits", "read", post[r].userId, post[r].totalCredits,
                 r, "none")]
    /\ UNCHANGED <<users, creditTransactions, jobs, queue, opsDone, users0, now, cron>>

\* deductCredits reported insufficient credits.
PostDeductFailed(r) ==
    /\ post[r].pc = "deducting"
    /\ frame[r].pc = "ret"
    /\ ~frame[r].result.success
    /\ post' = [post EXCEPT ![r] =
            Done(r, insufficientResponse(post[r].totalCredits,
                                         frame[r].result.newBalance))]
    /\ frame' = [frame EXCEPT ![r] = NoFrame]
    /\ UNCHANGED <<users, creditTransactions, jobs, queue, opsDone, users0, now, cron>>

\* deductCredits reported success: prisma.job.create.
PostJobCreate(r) ==
    /\ post[r].pc = "deducting"
    /\ frame[r].pc = "ret"
    /\ frame[r].result.success
    /\ jobs' = [jobs EXCEPT ![r] = pendingJob(post[r].userId, post[r].totalCredits)]
    /\ post' = [post EXCEPT ![r].pc = "dispatch",
                            ![r].deductResult = frame[r].result]
    /\ frame' = [frame EXCEPT ![r] = NoFrame]
    /\ UNCHANGED <<users, creditTransactions, queue, opsDone, users0, now, cron>>

\* queueService.addJob resolves, or rejects into the inner catch, which
\* calls creditService.refundCredits.
PostDispatch(r) ==
    /\ post[r].pc = "dispatch"
    /\ \/ /\ queue' = queue \cup {r}
          /\ post' = [post EXCEPT ![r] = Done(r, createdResponse(jobs[r]))]
          /\ UNCHANGED frame
       \/ /\ frame' = [frame EXCEPT ![r] =
                Call("refundCredits", "read", post[r].userId,
                     post[r].totalCredits, r, "none")]
          /\ post' = [post EXCEPT ![r].pc = "refunding"]
          /\ UNCHANGED queue
    /\ UNCHANGED <<users, creditTransactions, jobs, opsDone, users0, now, cron>>

\* refundCredits returned: prisma.job.update marks the job failed.
PostMarkFailed(r) ==
    /\ post[r].pc = "refunding"
    /\ frame[r].pc = "ret"
    /\ jobs' = [jobs EXCEPT ![r] = failedJob(@)]
    /\ post' = [post EXCEPT ![r] =
            Done(r, Response(500, "Failed to queue job for processing"))]
    /\ frame' = [frame EXCEPT ![r] = NoFrame]
    /\ UNCHANGED <<users, creditTransactions, queue, opsDone, users0, now, cron>>

\* The next awaited call of the handler rejects (an upload, a prisma call
\* of deductCredits or refundCredits, job.create, job.update): the outer
\* catch answers 500.
AwaitingFallibleCall(r) ==
    \/ post[r].pc = "upload"
    \/ /\ post[r].pc = "deducting"
       /\ frame[r].pc \in {"read", "update", "create"} \/ frame[r].result.success
    \/ post[r].pc = "refunding"

PostThrow(r) ==
    /\ AwaitingFallibleCall(r)
    /\ post' = [post EXCEPT ![r] =
            Done(r, Response(500, "An error occurred while creating the job"))]
    /\ frame' = [frame EXCEPT ![r] = NoFrame]
    /\ UNCHANGED <<users, creditTransactions, jobs, queue, opsDone, users0, now, cron>>

-----------------------------------------------------------------------------
(* Callers of the ledger outside the submission route *)

Idle(p) == frame[p].fn = "none" \/ frame[p].pc \in {"ret", "threw"}

\* The payment webhook, the subscription webhook and the reset job call
\* addAlaCarteCredits, updateUserTier and resetMonthlyCredits.
WorkerCall(w) ==
    /\ Idle(w)
    /\ opsDone[w] < MaxOps
    /\ \E userId \in Accounts \cup {UnknownUser} :
        \/ \E payment \in Payments :
              frame' = [frame EXCEPT ![w] =
                  [Call("addAlaCarteCredits", "read", userId, payment.credits,
                        "none", "none")
                     EXCEPT !.stripePaymentIntentId = payment.id]]
        \/ \E newTier \in SubscribedTiers :
              frame' = [frame EXCEPT ![w] =
                  Call("updateUserTier", "update", userId, 0, "none", newTier)]
        \/ frame' = [frame EXCEPT ![w] =
                  Call("resetMonthlyCredits", "read", userId, 0, "none", "none")]
    /\ opsDone' = [opsDone EXCEPT ![w] = @ + 1]
    /\ UNCHANGED <<users, creditTransactions, jobs, queue, post, users0, now, cron>>

Service(p) ==
    \/ deductCredits(p)
    \/ refundCredits(p)
    \/ addAlaCarteCredits(p)
    \/ updateUserTier(p)
    \/ resetMonthlyCredits(p)

Handler(r) ==
    \/ PostBegin(r)
    \/ PostUpload(r)
    \/ PostDeductFailed(r)
    \/ PostJobCreate(r)
    \/ PostDispatch(r)
    \/ PostMarkFailed(r)
    \/ PostThrow(r)

-----------------------------------------------------------------------------
(* The system: requests and ledger callers interleaved at every await *)

newUser == [tier |-> "free", creditsBalance |-> 0,
            monthlyCredits |-> getTierConfig("free").monthlyCredits,
            rolloverCap |-> getTierConfig("free").rolloverCap,
            creditsUsedThisMonth |-> 0, lastCreditReset |-> SignupDate]

Init ==
    /\ users = [a \in Accounts |-> newUser]
    /\ creditTransactions = EmptyBag
    /\ jobs = [r \in Reqs |-> NoJob]
    /\ queue = {}
    /\ post = [r \in Reqs |-> NoPost]
    /\ frame = [p \in Callers |-> NoFrame]
    /\ opsDone = [p \in Procs |-> 0]
    /\ users0 = users
    /\ now = SignupDate
    /\ cron = [c \in Crons |-> NoCron]

\* One submission racing the ledger's other callers.
Next ==
    \/ \E r \in {"j1"} : Handler(r)
    \/ \E w \in Workers : WorkerCall(w)
    \/ \E p \in Procs : Service(p)

Spec == Init /\ [][Next]_vars

\* A process is inside a handler or a ledger call.
InFlight(p) ==
    \/ p \in Reqs /\ post[p].pc \notin {"idle", "done"}
    \/ ~Idle(p)

Quiescent == \A p \in Procs : ~InFlight(p)

\* The same handlers when calls on the account do not overlap.
SeqNext ==
    \/ \E r \in Reqs :
          /\ \A q \in Procs \ {r} : ~InFlight(q)
          /\ Handler(r)
    \/ \E w \in Workers :
          /\ \A q \in Procs \ {w} : ~InFlight(q)
          /\ WorkerCall(w)
    \/ \E p \in Procs :
          /\ \A q \in Procs \ {p} : ~InFlight(q)
          /\ Service(p)

SeqSpec == Init /\ [][SeqNext]_vars

-----------------------------------------------------------------------------
(* The ledger alone: every process calls one CreditService method on the  *)
(* same account, the calls overlapping at every prisma call.               *)

\* Accounts as earlier calls left them: a free account that bought 50
\* credits; a starter account that bought 100 and spent 25 on job "j0".
LedgerStarts ==
    { [row |-> [tier |-> "free", creditsBalance |-> 50, monthlyCredits |-> 5,
                rolloverCap |-> 0, creditsUsedThisMonth |-> 0,
                lastCreditReset |-> SignupDate],
       log |-> SetToBag({purchaseTransaction("u1", 50, "pi_0")})],
      [row |-> [tier |-> "starter", creditsBalance |-> 75, monthlyCredits |-> 100,
                rolloverCap |-> 50, creditsUsedThisMonth |-> 25,
                lastCreditReset |-> SignupDate],
       log |-> SetToBag({tierChangeTransaction("u1"),
                         purchaseTransaction("u1", 100, "pi_0"),
                         usageTransaction("u1", 25, "j0")})] }

LedgerInit ==
    /\ \E s \in LedgerStarts :
          /\ users = [a \in Accounts |-> s.row]
          /\ creditTransactions = s.log
    /\ jobs = [r \in Reqs |-> NoJob]
    /\ queue = {}
    /\ post = [r \in Reqs |-> NoPost]
    /\ frame = [p \in Callers |-> NoFrame]
    /\ opsDone = [p \in Procs |-> 0]
    /\ users0 = users
    /\ now = SignupDate
    /\ cron = [c \in Crons |-> NoCron]

ReserveAmounts == {calculateBatchCredits(n) : n \in {30, 50}}

LedgerCall(p) ==
    /\ frame[p].fn = "none"
    /\ \E userId \in Accounts :
        \/ \E amount \in ReserveAmounts :
              frame' = [frame EXCEPT ![p] =
                  Call("deductCredits", "read", userId, amount, p, "none")]
        \/ \E amount \in ReserveAmounts :
              frame' = [frame EXCEPT ![p] =
                  Call("refundCredits", "read", userId, amount, p, "none")]
        \/ \E payment \in Payments :
              frame' = [frame EXCEPT ![p] =
                  [Call("addAlaCarteCredits", "read", userId, payment.credits,
                        "none", "none")
                     EXCEPT !.stripePaymentIntentId = payment.id]]
        \/ \E newTier \in SubscribedTiers :
              frame' = [frame EXCEPT ![p] =
                  Call("updateUserTier", "update", userId, 0, "none", newTier)]
        \/ frame' = [frame EXCEPT ![p] =
                  Call("resetMonthlyCredits", "read", userId, 0, "none", "none")]
    /\ UNCHANGED <<users, creditTransactions, jobs, queue, post, opsDone, users0, now, cron>>

LedgerNext ==
    \/ \E p \in Procs : LedgerCall(p)
    \/ \E p \in Procs : Service(p)

LedgerSpec == LedgerInit /\ [][LedgerNext]_vars

\* Two submission requests on the same account, overlapping at every
\* await, with no other caller of the ledger.
RaceNext ==
    \/ \E r \in Reqs : Handler(r)
    \/ \E r \in Reqs : deductCredits(r) \/ refundCredits(r)

RaceSpec == LedgerInit /\ [][RaceNext]_vars

\* What a call does to the account row when nothing overlaps it.
Atomically(f, u) ==
    CASE f.fn = "deductCredits" ->
            IF insufficientCredits(u, f.amount) THEN u
            ELSE [u EXCEPT !.creditsBalance = deductNewBalance(u, f.amount),
                           !.creditsUsedThisMonth = deductNewUsedThisMonth(u, f.amount)]
      [] f.fn = "refundCredits" ->
            [u EXCEPT !.creditsBalance = refundNewBalance(u, f.amount),
                      !.creditsUsedThisMonth = refundNewUsedThisMonth(u, f.amount)]
      [] f.fn = "addAlaCarteCredits" ->
            [u EXCEPT !.creditsBalance = purchaseNewBalance(u, f.amount)]
      [] f.fn = "updateUserTier" -> tierChange(u, f.newTier)
      [] f.fn = "resetMonthlyCredits" ->
            [u EXCEPT !.creditsBalance = resetNewBalance(u),
                      !.creditsUsedThisMonth = 0,
                      !.lastCreditReset = now,
                      !.monthlyCredits = getTierConfig(u.tier).monthlyCredits,
                      !.rolloverCap = getTierConfig(u.tier).rolloverCap]
      [] OTHER -> u

\* The account rows the calls of the processes in S leave, taken one after
\* another in any order.
RECURSIVE SequentialOutcomes(_, _)
SequentialOutcomes(S, u) ==
    IF S = {} THEN {u}
    ELSE UNION { SequentialOutcomes(S \ {p}, Atomically(frame[p], u)) : p \in S }

-----------------------------------------------------------------------------
(* GET /api/cron/reset-credits: the monthly reset route, and the clock   *)

CronAccounts == {"u1", "u2"}

\* getUsersNeedingReset: the where clause of prisma.user.findMany.
needsReset(user, date) ==
    /\ user.lastCreditReset <= oneMonthAgo(date)
    /\ user.tier # "free"

getUsersNeedingReset == {a \in DOMAIN users : needsReset(users[a], now)}

\* findMany has no orderBy: the rows come back in any order.
Orders(S) ==
    {ids \in [1..Cardinality(S) -> S] :
        \A i, j \in 1..Cardinality(S) : i # j => ids[i] # ids[j]}

\* Mutant: the catch block counts the failure and records no error.
recordFailure_silent(results, userId) == [results EXCEPT !.failed = @ + 1]

\* catch (error): results.failed++, results.errors.push(`User ${userId}: ...`)
recordFailure(results, userId) ==
    [results EXCEPT !.failed = @ + 1, !.errors = Append(@, userId)]

recordSuccess(results) == [results EXCEPT !.successful = @ + 1]

\* The authorization check, then getUsersNeedingReset; a rejected findMany
\* lands in the outer catch.
CronGet(c) ==
    /\ cron[c].pc = "idle"
    /\ \/ cron' = [cron EXCEPT ![c] = [NoCron EXCEPT !.pc = "done", !.status = 401]]
       \/ cron' = [cron EXCEPT ![c] = [NoCron EXCEPT !.pc = "done", !.status = 500]]
       \/ \E userIds \in Orders(getUsersNeedingReset) :
             cron' = [cron EXCEPT ![c] =
                 [NoCron EXCEPT !.pc = "loop", !.userIds = userIds, !.i = 1,
                                !.results.total = Len(userIds)]]
    /\ UNCHANGED <<users, creditTransactions, jobs, queue, post, frame, opsDone,
                   users0, now>>

\* for (const userId of userIds): creditService.resetMonthlyCredits(userId)
CronReset(c) ==
    /\ cron[c].pc = "loop"
    /\ cron[c].i <= Len(cron[c].userIds)
    /\ frame' = [frame EXCEPT ![c] =
            Call("resetMonthlyCredits", "read", cron[c].userIds[cron[c].i], 0,
                 "none", "none")]
    /\ cron' = [cron EXCEPT ![c].pc = "resetting"]
    /\ UNCHANGED <<users, creditTransactions, jobs, queue, post, opsDone,
                   users0, now>>

CronResetReturned(c) ==
    /\ cron[c].pc = "resetting"
    /\ frame[c].pc = "ret"
    /\ cron' = [cron EXCEPT ![c].pc = "loop", ![c].i = @ + 1,
                            ![c].results = recordSuccess(@)]
    /\ frame' = [frame EXCEPT ![c] = NoFrame]
    /\ UNCHANGED <<users, creditTransactions, jobs, queue, post, opsDone,
                   users0, now>>

\* resetMonthlyCredits threw, or the prisma call it is waiting for rejects:
\* the catch block of the loop.
CronResetFailed(c) ==
    /\ cron[c].pc = "resetting"
    /\ frame[c].pc \in {"threw", "read", "update", "create"}
    /\ cron' = [cron EXCEPT ![c].pc = "loop", ![c].i = @ + 1,
                            ![c].results = recordFailure(@, frame[c].userId)]
    /\ frame' = [frame EXCEPT ![c] = NoFrame]
    /\ UNCHANGED <<users, creditTransactions, jobs, queue, post, opsDone,
                   users0, now>>

\* The loop is over: the route answers with `results`.
CronReturn(c) ==
    /\ cron[c].pc = "loop"
    /\ cron[c].i > Len(cron[c].userIds)
    /\ cron' = [cron EXCEPT ![c].pc = "done", ![c].status = 200]
    /\ UNCHANGED <<users, creditTransactions, jobs, queue, post, frame, opsDone,
                   users0, now>>

\* The days the route is run on: 1 February, 1 March, 31 March.
ClockDates == {Day(1, 1), Day(2, 1), Day(2, 31)}

\* The date changes between runs of the route: a run takes less than a day.
Tick ==
    /\ \A c \in Crons : cron[c].pc \in {"idle", "done"}
    /\ \E date \in ClockDates : date > now /\ now' = date
    /\ UNCHANGED <<users, creditTransactions, jobs, queue, post, frame, opsDone,
                   users0, cron>>

\* A starter account last reset on 1 January with 30 credits left, next to
\* a free account as old, or next to a starter account last reset on
\* 31 January.
CronStarts ==
    { [u1 |-> [tier |-> "starter", creditsBalance |-> 30, monthlyCredits |-> 100,
               rolloverCap |-> 50, creditsUsedThisMonth |-> 70,
               lastCreditReset |-> Day(0, 1)],
       u2 |-> [tier |-> "free", creditsBalance |-> 5, monthlyCredits |-> 5,
               rolloverCap |-> 0, creditsUsedThisMonth |-> 0,
               lastCreditReset |-> Day(0, 1)]],
      [u1 |-> [tier |-> "starter", creditsBalance |-> 30, monthlyCredits |-> 100,
               rolloverCap |-> 50, creditsUsedThisMonth |-> 70,
               lastCreditReset |-> Day(0, 1)],
       u2 |-> [tier |-> "starter", creditsBalance |-> 100, monthlyCredits |-> 100,
               rolloverCap |-> 50, creditsUsedThisMonth |-> 0,
               lastCreditReset |-> Day(0, 31)]] }

CronInit ==
    /\ users \in CronStarts
    /\ creditTransactions = EmptyBag
    /\ jobs = [r \in Reqs |-> NoJob]
    /\ queue = {}
    /\ post = [r \in Reqs |-> NoPost]
    /\ frame = [p \in Callers |-> NoFrame]
    /\ opsDone = [p \in Procs |-> 0]
    /\ users0 = users
    /\ now = Day(1, 1)
    /\ cron = [c \in Crons |-> NoCron]

\* Two runs of the route, overlapping or one after the other, as the days
\* pass.
CronNext ==
    \/ \E c \in Crons :
          \/ CronGet(c)
          \/ CronReset(c)
          \/ CronResetReturned(c)
          \/ CronResetFailed(c)
          \/ CronReturn(c)
    \/ \E c \in Crons : resetMonthlyCredits(c)
    \/ Tick

CronSpec == CronInit /\ [][CronNext]_vars

-----------------------------------------------------------------------------
(* Properties *)

TheAccount == CHOOSE a \in Accounts : TRUE

\* Sum of the amounts of the rows of a bag of transactions.
RECURSIVE SumOfRows(_, _)
SumOfRows(rows, table) ==
    IF rows = {} THEN 0
    ELSE LET row == CHOOSE x \in rows : TRUE
         IN  row.amount * CopiesIn(row, table) + SumOfRows(rows \ {row}, table)

LedgerSum(userId) ==
    SumOfRows({row \in BagToSet(creditTransactions) : row.userId = userId},
              creditTransactions)

RECURSIVE SumOfAmounts(_)
SumOfAmounts(S) ==
    IF S = {} THEN 0
    ELSE LET p == CHOOSE x \in S : TRUE
         IN  frame[p].amount + SumOfAmounts(S \ {p})

SucceededReserves ==
    {p \in Procs : /\ frame[p].fn = "deductCredits"
                   /\ frame[p].pc = "ret"
                   /\ frame[p].result.success}

HasRow(type, jobId) ==
    \E row \in BagToSet(creditTransactions) : row.type = type /\ row.jobId = jobId

\* C1: when the only calls on an account are overlapping deductCredits
\* calls, the amounts of the calls that reported success add up to at most
\* the balance the account had before them.
C1_NoOverdraft ==
    (\A p \in Procs : frame[p].fn \in {"none", "deductCredits"})
        => SumOfAmounts(SucceededReserves) <= users0[TheAccount].creditsBalance

\* C2: whenever no call is in progress, every account's creditsBalance is
\* the sum of the amounts of its CreditTransaction rows.
C2_LedgerSum ==
    Quiescent => \A a \in Accounts : users[a].creditsBalance = LedgerSum(a)

\* C3: a request whose queue dispatch failed returns only with the job
\* failed with an error message, a refund row of creditsReserved for the
\* job, and the balance back at its value before the reservation.
C3_CompensationComplete ==
    [][\A r \in Reqs :
        (post[r].pc = "refunding" /\ post'[r].pc = "done")
            => /\ jobs'[r].status = "failed"
               /\ jobs'[r].errorMessage # "none"
               /\ BagIn(refundTransaction(post[r].userId, jobs'[r].creditsReserved, r),
                        creditTransactions')
               /\ users'[post[r].userId].creditsBalance =
                      post[r].before.creditsBalance]_vars

\* C4: once a request has returned, a usage row for its job without a
\* refund row for it means the job was dispatched to the queue.
C4_NoReservationWithoutQueuedJob ==
    \A r \in Reqs :
        (post[r].pc = "done" /\ HasRow("usage", r) /\ ~HasRow("refund", r))
            => r \in queue

\* C5: once overlapping calls on an account have all returned, its balance
\* and usedThisMonth are those some sequential order of the calls leaves.
C5_Linearizable ==
    (\A p \in Procs : frame[p].pc \in {"none", "ret"})
        => \E u \in SequentialOutcomes({p \in Procs : frame[p].pc = "ret"},
                                       users0[TheAccount]) :
              /\ u.creditsBalance = users[TheAccount].creditsBalance
              /\ u.creditsUsedThisMonth = users[TheAccount].creditsUsedThisMonth

\* C6: every account's creditsBalance is at least 0 in every state, however
\* the calls on it overlap.
C6_BalanceNeverNegative ==
    \A a \in Accounts : users[a].creditsBalance >= 0

C6_Witness ==
    \E p, q \in Procs :
        /\ p # q
        /\ frame[p].fn = "deductCredits" /\ frame[p].pc = "ret"
        /\ frame[q].fn = "deductCredits" /\ frame[q].pc = "ret"
        /\ frame[p].result.success /\ frame[q].result.success
        /\ frame[p].amount + frame[q].amount > users0[TheAccount].creditsBalance

\* The step is one of r's deductCredits call.
IsDeductCall(r) ==
    /\ frame[r].fn = "deductCredits"
    /\ frame'[r].fn = "deductCredits"
    /\ frame'[r] # frame[r]

\* C7: deductCredits reading a balance below the amount returns failure
\* with that balance and changes neither the account rows nor the
\* transaction rows; the request then answers 402 with required = the
\* priced total and available = the balance deductCredits returned.
C7_FailedReserveNoOp ==
    [][\A r \in Reqs :
        /\ (/\ IsDeductCall(r)
            /\ frame[r].pc = "read"
            /\ users[frame[r].userId].creditsBalance < frame[r].amount)
            => /\ frame'[r].pc = "ret"
               /\ ~frame'[r].result.success
               /\ frame'[r].result.newBalance = users[frame[r].userId].creditsBalance
               /\ users' = users
               /\ creditTransactions' = creditTransactions
        /\ (/\ IsDeductCall(r)
            /\ frame'[r].pc = "ret"
            /\ ~frame'[r].result.success)
            => users[frame[r].userId].creditsBalance < frame[r].amount
        /\ (/\ post[r].pc = "deducting"
            /\ frame[r].pc = "ret"
            /\ ~frame[r].result.success
            /\ post'[r] # post[r])
            => /\ post'[r].pc = "done"
               /\ post'[r].response.status = 402
               /\ post'[r].response.required = post[r].totalCredits
               /\ post'[r].response.available = frame[r].result.newBalance
               /\ users' = users
               /\ creditTransactions' = creditTransactions]_vars

\* The balance fell to 5 after the optimistic check of a 25-credit batch.
C7_Witness ==
    \E r \in Reqs :
        /\ post[r].pc = "deducting"
        /\ frame[r].pc = "ret"
        /\ ~frame[r].result.success
        /\ frame[r].amount = 25
        /\ frame[r].result.newBalance = 5
        /\ users[TheAccount].creditsBalance = 5

\* C8: deductCredits called with amount <= balance takes the balance down
\* by exactly amount and usedThisMonth up by exactly amount, reports
\* success with the new balance, and adds exactly one usage row of -amount
\* for the job.
C8_SuccessfulReserve ==
    [][\A r \in Reqs :
        LET f == frame[r]
            u == f.userId
        IN  /\ (/\ IsDeductCall(r)
                /\ f.pc = "read"
                /\ f.amount > 0
                /\ f.amount <= users[u].creditsBalance)
                => frame'[r].pc = "update"
            /\ (IsDeductCall(r) /\ f.pc = "update" /\ frame'[r].pc = "create")
                => /\ users'[u].creditsBalance = users[u].creditsBalance - f.amount
                   /\ users'[u].creditsUsedThisMonth =
                          users[u].creditsUsedThisMonth + f.amount
                   /\ users'[u].tier = users[u].tier
                   /\ creditTransactions' = creditTransactions
            /\ (IsDeductCall(r) /\ f.pc = "create" /\ frame'[r].pc = "ret")
                => /\ frame'[r].result.success
                   /\ frame'[r].result.newBalance = users[u].creditsBalance
                   /\ users' = users
                   /\ creditTransactions' =
                          creditTransactions (+)
                          SetToBag({[userId |-> u, amount |-> 0 - f.amount,
                                     type |-> "usage", jobId |-> r,
                                     payment |-> "none"]})
                   /\ CopiesIn([userId |-> u, amount |-> 0 - f.amount,
                                type |-> "usage", jobId |-> r,
                                     payment |-> "none"],
                               creditTransactions') = 1]_vars

C8_Witness ==
    \E r \in Reqs :
        /\ frame[r].fn = "deductCredits"
        /\ frame[r].pc = "ret"
        /\ frame[r].result.success
        /\ frame[r].result.newBalance = 75
        /\ users[TheAccount].creditsBalance = 75
        /\ HasRow("usage", r)

\* C9: when refundCredits of the same amount follows a successful
\* deductCredits, balance and usedThisMonth are what they were before the
\* reserve.
C9_ReserveRefundInverse ==
    \A r \in Reqs :
        (post[r].pc = "refunding" /\ frame[r].pc = "ret")
            => /\ users[post[r].userId].creditsBalance = post[r].before.creditsBalance
               /\ users[post[r].userId].creditsUsedThisMonth =
                      post[r].before.creditsUsedThisMonth

C9_Witness ==
    \E r \in Reqs :
        /\ post[r].pc = "refunding"
        /\ frame[r].pc = "ret"
        /\ post[r].before.creditsUsedThisMonth > 0
        /\ HasRow("usage", r)
        /\ HasRow("refund", r)

\* The step is one of p's resetMonthlyCredits call.
IsResetCall(p) ==
    /\ frame[p].fn = "resetMonthlyCredits"
    /\ frame'[p].fn = "resetMonthlyCredits"
    /\ frame'[p] # frame[p]

\* C10: resetMonthlyCredits sets the balance to the tier's monthlyCredits
\* plus min(max(previous balance, 0), the tier's rolloverCap) and
\* usedThisMonth to 0, returns that rollover as rolledOverAmount, and adds
\* one monthly_reset row of amount monthlyCredits; 10 with 100 and cap 50
\* gives 110, 80 gives 150.
C10_ResetFormula ==
    [][\A p \in Procs :
        LET f == frame[p]
            u == f.userId
            monthly == PRICING_TIERS[users[u].tier].monthlyCredits
            cap == PRICING_TIERS[users[u].tier].rolloverCap
            previous == users[u].creditsBalance
            rollover == IF previous < 0 THEN 0
                        ELSE IF previous > cap THEN cap ELSE previous
        IN  /\ (IsResetCall(p) /\ f.pc = "update" /\ frame'[p].pc = "create")
                => /\ users'[u].creditsBalance = monthly + rollover
                   /\ users'[u].creditsUsedThisMonth = 0
                   /\ creditTransactions' = creditTransactions
            /\ (IsResetCall(p) /\ f.pc = "create" /\ frame'[p].pc = "ret")
                => /\ frame'[p].result.rolledOverAmount =
                          users[u].creditsBalance - monthly
                   /\ frame'[p].result.newBalance = users[u].creditsBalance
                   /\ frame'[p].result.monthlyCredits = monthly
                   /\ users' = users
                   /\ creditTransactions' =
                          creditTransactions (+)
                          SetToBag({[userId |-> u, amount |-> monthly,
                                     type |-> "monthly_reset", jobId |-> "none",
                                     payment |-> "none"]})
            /\ calculateRollover(10, 100, 50) = 110
            /\ calculateRollover(80, 100, 50) = 150]_vars

\* A starter account reset with more than its rollover cap left.
C10_Witness ==
    \E p \in Procs :
        /\ frame[p].fn = "resetMonthlyCredits"
        /\ frame[p].pc = "ret"
        /\ frame[p].result.previousBalance > 50
        /\ frame[p].result.rolledOverAmount = 50
        /\ users[TheAccount].tier = "starter"
        /\ users[TheAccount].creditsBalance = 150

\* C11: a resetMonthlyCredits call that reaches its write when the account
\* was already reset the same day (a second call, or the second of two
\* runs of the route that both selected the account) grants nothing: it
\* leaves the account row as it is and goes on to add no monthly_reset row.
C11_ResetIdempotent ==
    [][\A c \in Callers :
        (/\ IsResetCall(c)
         /\ frame[c].pc = "update"
         /\ users[frame[c].userId].lastCreditReset = now)
            => /\ users'[frame[c].userId].creditsBalance =
                      users[frame[c].userId].creditsBalance
               /\ frame'[c].pc # "create"]_vars

\* The step is one of p's addAlaCarteCredits call.
IsPurchaseCall(p) ==
    /\ frame[p].fn = "addAlaCarteCredits"
    /\ frame'[p].fn = "addAlaCarteCredits"
    /\ frame'[p] # frame[p]

\* A purchase row of the account already names the payment intent.
PaymentRecorded(userId, stripePaymentIntentId) ==
    \E row \in BagToSet(creditTransactions) :
        /\ row.type = "purchase"
        /\ row.userId = userId
        /\ row.payment = stripePaymentIntentId

\* C12: addAlaCarteCredits delivered again for a payment intent the account
\* already has a purchase row for credits nothing and records nothing: the
\* balance is credited once and one purchase row names the payment.
C12_PurchaseIdempotent ==
    [][\A p \in Procs :
        LET f == frame[p] IN
        (IsPurchaseCall(p) /\ PaymentRecorded(f.userId, f.stripePaymentIntentId))
            => /\ users' = users
               /\ creditTransactions' = creditTransactions]_vars

\* C13: a request whose queue dispatch succeeded returns with the job's
\* status advanced to queued and with that status in the job summary it
\* answers; the statuses the route leaves a job it created in are queued
\* and failed.
C13_QueuedOnDispatch ==
    \A r \in Reqs :
        /\ (post[r].pc = "done" /\ r \in queue)
              => /\ jobs[r].status = "queued"
                 /\ post[r].response.jobStatus = "queued"
        /\ (post[r].pc = "done" /\ post[r].response.status = 201)
              => r \in queue

\* C14: a request that is rejected at validation, at the account lookup or
\* at the optimistic check, or whose upload fails, changes no account row,
\* no transaction row and no job row, and has called no CreditService
\* method; deductCredits is called only from the upload step, for a batch
\* of 1 to 100 images of an existing account, and only a request that has
\* called it has a job row or a usage row.
C14_NoEffectBeforeReserve ==
    [][\A r \in Reqs :
        /\ (post[r].pc \in {"idle", "upload"} /\ post'[r].pc = "done")
              => /\ users' = users
                 /\ creditTransactions' = creditTransactions
                 /\ jobs' = jobs /\ jobs[r] = NoJob
                 /\ queue' = queue
                 /\ frame[r] = NoFrame /\ frame'[r] = NoFrame
                 /\ ~HasRow("usage", r)
                 /\ post'[r].response.status \in {400, 401, 402, 404, 500}
        /\ (post[r].pc = "idle" /\ post'[r].pc = "done")
              => post'[r].response.status \in {400, 401, 402, 404}
        /\ (frame'[r].fn = "deductCredits" /\ frame[r].fn # "deductCredits")
              => /\ post[r].pc = "upload"
                 /\ post[r].imageCount \in 1..MaxImages
                 /\ post[r].userId \in DOMAIN users
                 /\ frame'[r].amount = post[r].totalCredits
        /\ (post[r].pc \in {"idle", "upload"})
              => /\ jobs[r] = NoJob
                 /\ ~HasRow("usage", r)
                 /\ frame[r] = NoFrame]_vars

\* A batch over the cap was rejected on an account that holds credits.
C14_Witness ==
    \E r \in Reqs :
        /\ post[r].pc = "done"
        /\ post[r].response.status = 400
        /\ post[r].response.error = "Maximum 100 images per job"
        /\ jobs[r] = NoJob
        /\ ~HasRow("usage", r)
        /\ users[TheAccount].creditsBalance >= 100
        /\ users[TheAccount].creditsBalance = LedgerSum(TheAccount)

\* C15: a run of the route that answers with its report called
\* resetMonthlyCredits once for every id getUsersNeedingReset returned,
\* whatever failed on the way; the report has total = successful + failed
\* and one error per failure, naming the account that failed; and a
\* failure never ends the loop.
C15_FailureIsolation ==
    [][\A c \in Crons :
        /\ (cron[c].pc = "resetting" /\ cron'[c].pc # "resetting")
              => /\ cron'[c].pc = "loop"
                 /\ cron'[c].i = cron[c].i + 1
                 /\ cron'[c].userIds = cron[c].userIds
                 /\ cron'[c].results.total = cron[c].results.total
                 /\ IF frame[c].pc = "ret"
                    THEN /\ cron'[c].results.successful =
                                cron[c].results.successful + 1
                         /\ cron'[c].results.failed = cron[c].results.failed
                         /\ cron'[c].results.errors = cron[c].results.errors
                    ELSE /\ cron'[c].results.successful =
                                cron[c].results.successful
                         /\ cron'[c].results.failed = cron[c].results.failed + 1
                         /\ cron'[c].results.errors =
                                cron[c].results.errors
                                    \o <<cron[c].userIds[cron[c].i]>>
        /\ (cron[c].pc = "loop" /\ cron'[c].pc = "resetting")
              => /\ frame'[c].fn = "resetMonthlyCredits"
                 /\ frame'[c].pc = "read"
                 /\ frame'[c].userId = cron[c].userIds[cron[c].i]
                 /\ cron'[c].i = cron[c].i
        /\ (cron[c].pc = "loop" /\ cron'[c].pc = "done")
              => /\ cron[c].i = Len(cron[c].userIds) + 1
                 /\ cron'[c].status = 200
                 /\ cron'[c].results = cron[c].results
        /\ (cron'[c].pc \in {"loop", "resetting"})
              => LET res == cron'[c].results
                     attempted == IF cron'[c].pc = "loop" THEN cron'[c].i - 1
                                  ELSE cron'[c].i
                     finished == cron'[c].i - 1
                 IN  /\ res.total = Len(cron'[c].userIds)
                     /\ res.successful + res.failed = finished
                     /\ Len(res.errors) = res.failed
                     /\ attempted <= res.total
        /\ (cron'[c].pc = "done" /\ cron'[c].status = 200)
              => /\ cron'[c].results.total =
                        cron'[c].results.successful + cron'[c].results.failed
                 /\ Len(cron'[c].results.errors) = cron'[c].results.failed
                 /\ cron'[c].results.total = Len(cron'[c].userIds)]_vars

\* A run selected two accounts; the reset of the first failed and the
\* reset of the second succeeded.
C15_Witness ==
    \E c \in Crons :
        /\ cron[c].pc = "done"
        /\ cron[c].status = 200
        /\ cron[c].results.total = 2
        /\ cron[c].results.successful = 1
        /\ cron[c].results.failed = 1
        /\ cron[c].results.errors = <<cron[c].userIds[1]>>

\* The step is one of p's refundCredits call.
IsRefundCall(p) ==
    /\ frame[p].fn = "refundCredits"
    /\ frame'[p].fn = "refundCredits"
    /\ frame'[p] # frame[p]

\* C16: creditsUsedThisMonth is at least 0 in every state; refundCredits
\* on an existing account never throws for what it read, and when it
\* writes an account whose usedThisMonth is below the amount (the row
\* being as the call read it) the balance goes up by exactly amount and
\* usedThisMonth becomes 0.
C16_UsedNeverNegative ==
    [][/\ \A a \in DOMAIN users :
            /\ users[a].creditsUsedThisMonth >= 0
            /\ users'[a].creditsUsedThisMonth >= 0
       /\ \A p \in Procs :
            LET f == frame[p]
                u == f.userId
            IN  /\ (IsRefundCall(p) /\ f.pc = "read" /\ u \in DOMAIN users)
                      => frame'[p].pc = "update"
                /\ (/\ IsRefundCall(p)
                    /\ f.pc = "update"
                    /\ users[u].creditsBalance = f.user.creditsBalance
                    /\ users[u].creditsUsedThisMonth = f.user.creditsUsedThisMonth
                    /\ users[u].creditsUsedThisMonth < f.amount)
                      => /\ users'[u].creditsBalance =
                                users[u].creditsBalance + f.amount
                         /\ users'[u].creditsUsedThisMonth = 0
                         /\ frame'[p].pc = "create"
                /\ (IsRefundCall(p) /\ f.pc = "create")
                      => frame'[p].pc = "ret"]_vars

\* A monthly reset ran between the reserve and its refund: the refund found
\* usedThisMonth at 0 and restored the 25 credits.
C16_Witness ==
    \E r \in Reqs :
        /\ frame[r].fn = "refundCredits"
        /\ frame[r].pc = "create"
        /\ frame[r].user.creditsUsedThisMonth < frame[r].amount
        /\ HasRow("usage", r)
        /\ HasRow("monthly_reset", "none")
        /\ users[TheAccount].creditsUsedThisMonth = 0
        /\ users[TheAccount].creditsBalance =
               frame[r].user.creditsBalance + frame[r].amount

\* The step is one of p's updateUserTier call.
IsTierCall(p) ==
    /\ frame[p].fn = "updateUserTier"
    /\ frame'[p].fn = "updateUserTier"
    /\ frame'[p] # frame[p]

\* monthlyCredits and rolloverCap of the row are those of its tier.
SnapshotInSync(user) ==
    /\ user.monthlyCredits = PRICING_TIERS[user.tier].monthlyCredits
    /\ user.rolloverCap = PRICING_TIERS[user.tier].rolloverCap

\* C17: updateUserTier writes the new tier together with that tier's
\* monthlyCredits and rolloverCap, leaves balance and usedThisMonth as they
\* are and adds one tier_change row of amount 0; through any sequence of
\* updateUserTier and resetMonthlyCredits calls every account's
\* monthlyCredits and rolloverCap are those of its tier.
C17_TierSnapshot ==
    [][/\ \A a \in DOMAIN users :
            SnapshotInSync(users[a]) /\ SnapshotInSync(users'[a])
       /\ \A p \in Procs :
            LET f == frame[p]
                u == f.userId
            IN  /\ (IsTierCall(p) /\ f.pc = "update" /\ u \in DOMAIN users)
                      => /\ frame'[p].pc = "create"
                         /\ users'[u].tier = f.newTier
                         /\ users'[u].monthlyCredits =
                                PRICING_TIERS[f.newTier].monthlyCredits
                         /\ users'[u].rolloverCap =
                                PRICING_TIERS[f.newTier].rolloverCap
                         /\ users'[u].creditsBalance = users[u].creditsBalance
                         /\ users'[u].creditsUsedThisMonth =
                                users[u].creditsUsedThisMonth
                         /\ creditTransactions' = creditTransactions
                /\ (IsTierCall(p) /\ f.pc = "create")
                      => /\ users' = users
                         /\ creditTransactions' =
                                creditTransactions (+)
                                SetToBag({[userId |-> u, amount |-> 0,
                                           type |-> "tier_change",
                                           jobId |-> "none",
                                           payment |-> "none"]})]_vars

\* A free account with 50 credits was moved to starter and then reset.
C17_Witness ==
    /\ users[TheAccount].tier = "starter"
    /\ users[TheAccount].monthlyCredits = 100
    /\ users[TheAccount].rolloverCap = 50
    /\ users[TheAccount].creditsBalance = 150
    /\ HasRow("tier_change", "none")
    /\ HasRow("monthly_reset", "none")

\* One calendar month before / after a date: the same day of the month
\* before / after, or that month's last day when it is shorter.
OneCalendarMonthBefore(date) ==
    LET m == getMonth(date) - 1
    IN  Day(m, Min(getDate(date), daysInMonth(m)))

OneCalendarMonthAfter(date) ==
    LET m == getMonth(date) + 1
    IN  Day(m, Min(getDate(date), daysInMonth(m)))

\* The step is c's call of getUsersNeedingReset returning its ids.
IsSelection(c) == cron[c].pc = "idle" /\ cron'[c].pc = "loop"

Selected(c) == {cron'[c].userIds[i] : i \in 1..Len(cron'[c].userIds)}

\* C18: getUsersNeedingReset returns exactly the accounts whose
\* lastCreditReset is at or before now minus one calendar month and whose
\* tier is not free; a free account is never among them.
C18_ResetEligibility ==
    [][\A c \in Crons :
        IsSelection(c)
            => /\ Selected(c) =
                    {a \in DOMAIN users :
                        /\ users[a].lastCreditReset <= OneCalendarMonthBefore(now)
                        /\ users[a].tier # "free"}
               /\ \A a \in Selected(c) : users[a].tier # "free"]_vars

\* A resetMonthlyCredits call on the account has completed.
HasBeenReset(userId) ==
    \E row \in BagToSet(creditTransactions) :
        row.type = "monthly_reset" /\ row.userId = userId

\* C19: resetMonthlyCredits writes the day of the reset to lastCreditReset,
\* and a run of the route that starts when no other run is in progress
\* selects no account that was reset less than one calendar month before:
\* one monthly grant per account and one-month window.
C19_OneGrantPerWindow ==
    [][\A c \in Crons :
        /\ (IsResetCall(c) /\ frame[c].pc = "update")
              => users'[frame[c].userId].lastCreditReset = now
        /\ (IsSelection(c) /\ \A d \in Crons \ {c} : cron[d].pc \in {"idle", "done"})
              => \A a \in Selected(c) :
                    HasBeenReset(a)
                        => OneCalendarMonthAfter(users[a].lastCreditReset) <= now]_vars

\* The rows of a type recorded for a job, and how many there are.
RowsOf(type, jobId) ==
    {row \in BagToSet(creditTransactions) : row.type = type /\ row.jobId = jobId}

RECURSIVE CountRows(_)
CountRows(rows) ==
    IF rows = {} THEN 0
    ELSE LET row == CHOOSE x \in rows : TRUE
         IN  CopiesIn(row, creditTransactions) + CountRows(rows \ {row})

JobIds == {row.jobId : row \in BagToSet(creditTransactions)} \ {"none"}

\* C20: however submission requests overlap, every job has at most one
\* usage row and at most one refund row; a refund row exists only for a
\* job that has a usage row, on the same account, and its amount is the
\* amount reserved: minus the usage amount, and the job's creditsReserved.
\* Every refund row is tagged with a job.
C20_RefundWithinReservation ==
    /\ \A jobId \in JobIds :
          /\ CountRows(RowsOf("usage", jobId)) <= 1
          /\ CountRows(RowsOf("refund", jobId)) <= 1
          /\ \A refund \in RowsOf("refund", jobId) :
                /\ RowsOf("usage", jobId) # {}
                /\ \A usage \in RowsOf("usage", jobId) :
                      /\ refund.amount = 0 - usage.amount
                      /\ refund.userId = usage.userId
                /\ jobId \in DOMAIN jobs
                /\ jobs[jobId].creditsReserved = refund.amount
    /\ RowsOf("refund", "none") = {}

\* The dispatch of one request failed and its credits were refunded while
\* the other request, which reserved concurrently, is still in progress.
C20_Witness ==
    \E r, q \in Reqs :
        /\ r # q
        /\ RowsOf("usage", r) # {} /\ RowsOf("refund", r) # {}
        /\ RowsOf("usage", q) # {}
        /\ post[q].pc \notin {"idle", "done"}
        /\ post[r].pc = "done"

=============================================================================
